---- MODULE Spec2Model ----
(***************************************************************************)
(* A model of the WebGL textured, lit model loader: the fragment stage's   *)
(* light evaluation (assignment6.textured.frag.glsl), the vertex stage's   *)
(* TBN construction, the Texture loader and the Object3D / ShadedObject3D  *)
(* draw calls.                                                             *)
(*                                                                         *)
(* Shader floats are modelled as exact rationals <<n, d>> in lowest terms  *)
(* with d > 0, extended by the IEEE specials <<1, 0>> (+Inf), <<-1, 0>>    *)
(* (-Inf) and <<0, 0>> (NaN).  Rounding is not modelled.  Results GLSL     *)
(* leaves undefined (normalize of the zero vector, pow(0, y <= 0)) are a   *)
(* choice of the GPU, held in the variable gpu.                            *)
(***************************************************************************)
EXTENDS Integers, Sequences, FiniteSets, TLC

VARIABLES
    gpu,            \* the outcomes this GPU produces where GLSL says "undefined"
    sh_in,          \* arguments of one call of a shade function
    sh_out,         \* what the shade function returned (with its locals), or NotCalled
    vs_in,          \* attributes and uniforms of one vertex-stage invocation
    vs_out,         \* the vertex stage's outputs (with its locals), or NotCalled
    fs_in,          \* per fragment invocation: its uniforms and its inputs from the vertex stage
    fs,             \* per fragment invocation: its position in main() and its locals
    gl,             \* the WebGL2 context: bindings, vertex array objects, buffers, uniforms
    textures,       \* the Texture objects constructed so far, with their image data's state
    objects,        \* the Object3D / ShadedObject3D instances constructed so far
    call            \* the render call in progress and its position, or idle

shade_vars == <<sh_in, sh_out>>
vertex_vars == <<vs_in, vs_out>>
frag_vars == <<fs_in, fs>>
host_vars == <<gl, textures, objects, call>>
vars == <<gpu, shade_vars, vertex_vars, frag_vars, host_vars>>

(***************************************************************************)
(* Float arithmetic                                                        *)
(***************************************************************************)
RECURSIVE GCD(_, _)
GCD(a, b) == IF b = 0 THEN a ELSE GCD(b, a % b)

Abs(n) == IF n < 0 THEN -n ELSE n

Sign(n) == IF n < 0 THEN -1 ELSE IF n > 0 THEN 1 ELSE 0

\* the float n/d, in lowest terms; a zero denominator gives Inf, -Inf or NaN
Q(n, d) ==
    IF d = 0 THEN <<Sign(n), 0>>
    ELSE LET g == GCD(Abs(n), Abs(d))
         IN  <<Sign(d) * (n \div g), Abs(d) \div g>>

Zero == <<0, 1>>
One == <<1, 1>>
Two == <<2, 1>>
NaN == <<0, 0>>
Inf == <<1, 0>>

IsNaN(x) == x = NaN
IsFinite(x) == x[2] # 0

Mul(x, y) == Q(x[1] * y[1], x[2] * y[2])

Neg(x) == <<-x[1], x[2]>>

Add(x, y) ==
    IF IsNaN(x) \/ IsNaN(y) THEN NaN
    ELSE IF ~IsFinite(x) THEN (IF ~IsFinite(y) /\ y # x THEN NaN ELSE x)
    ELSE IF ~IsFinite(y) THEN y
    ELSE Q(x[1] * y[2] + y[1] * x[2], x[2] * y[2])

Sub(x, y) == Add(x, Neg(y))

Recip(x) == Q(x[2], x[1])

Div(x, y) == Mul(x, Recip(y))

\* x < y; false when either is NaN
Lt(x, y) ==
    IF IsNaN(x) \/ IsNaN(y) THEN FALSE
    ELSE IF ~IsFinite(x) /\ ~IsFinite(y) THEN x[1] < y[1]
    ELSE x[1] * y[2] < y[1] * x[2]

\* GLSL max(x, y): y if x < y, otherwise x
Max(x, y) == IF Lt(x, y) THEN y ELSE x

\* the integer square root of a perfect square
ISqrt(n) == CHOOSE r \in 0..n : r * r = n

\* GLSL sqrt, on the floats whose root is a float of the model
Sqrt(x) ==
    IF IsNaN(x) \/ Lt(x, Zero) THEN NaN
    ELSE IF ~IsFinite(x) THEN Inf
    ELSE <<ISqrt(x[1]), ISqrt(x[2])>>

RECURSIVE IntPow(_, _)
IntPow(x, k) == IF k = 0 THEN One ELSE Mul(x, IntPow(x, k - 1))

\* GLSL pow(x, y): undefined for x < 0 and for x = 0 with y <= 0
Pow(x, y) ==
    IF IsNaN(x) \/ IsNaN(y) THEN NaN
    ELSE IF Lt(x, Zero) \/ (x = Zero /\ ~Lt(Zero, y)) THEN gpu.pow_undefined
    ELSE IF y[2] = 1 /\ y[1] >= 0 THEN IntPow(x, y[1])
    ELSE IF y = Inf THEN (IF Lt(x, One) THEN Zero ELSE IF x = One THEN One ELSE Inf)
    ELSE CHOOSE r \in {} : TRUE   \* a non-integer exponent: outside the model's floats

(***************************************************************************)
(* vec3 and mat3                                                           *)
(***************************************************************************)
Vec(x, y, z) == <<Q(x, 1), Q(y, 1), Q(z, 1)>>

Zero3 == <<Zero, Zero, Zero>>
NaN3 == <<NaN, NaN, NaN>>

VAdd(a, b) == <<Add(a[1], b[1]), Add(a[2], b[2]), Add(a[3], b[3])>>
VSub(a, b) == <<Sub(a[1], b[1]), Sub(a[2], b[2]), Sub(a[3], b[3])>>
VNeg(a) == <<Neg(a[1]), Neg(a[2]), Neg(a[3])>>
\* component-wise product of two vectors
VMul(a, b) == <<Mul(a[1], b[1]), Mul(a[2], b[2]), Mul(a[3], b[3])>>
\* a float times a vector
VScale(s, a) == <<Mul(s, a[1]), Mul(s, a[2]), Mul(s, a[3])>>

Dot(a, b) == Add(Add(Mul(a[1], b[1]), Mul(a[2], b[2])), Mul(a[3], b[3]))

Cross(a, b) ==
    <<Sub(Mul(a[2], b[3]), Mul(a[3], b[2])),
      Sub(Mul(a[3], b[1]), Mul(a[1], b[3])),
      Sub(Mul(a[1], b[2]), Mul(a[2], b[1]))>>

Length(a) == Sqrt(Dot(a, a))

Distance(a, b) == Length(VSub(a, b))

\* GLSL normalize: undefined for a vector of length 0
Normalize(a) ==
    LET len == Length(a)
    IN  IF len = Zero THEN <<gpu.normalize_zero, gpu.normalize_zero, gpu.normalize_zero>>
        ELSE <<Div(a[1], len), Div(a[2], len), Div(a[3], len)>>

\* GLSL reflect(I, N) = I - 2 * dot(N, I) * N
Reflect(I, N) == VSub(I, VScale(Mul(Two, Dot(N, I)), N))

\* texture(map, tex_coords).rgb: a map is a function from texture coordinates to a colour
Texture(map, tc) == map[tc]

(***************************************************************************)
(* Fragment stage: the three shade functions                               *)
(***************************************************************************)
MAX_LIGHTS == 16

\* max(dot(L, N), 0.0): the diffuse factor of a directional or point light
DiffuseFactorUnclamped(L, N) == Dot(L, N)
DiffuseFactor(L, N) == Max(Dot(L, N), Zero)

\* max(dot(R, V), 0.0): the base of the specular power
SpecularBase(R, V) == Max(Dot(R, V), Zero)

\* LN * light.color * light.intensity * material.kD * texture(material.map_kD, tex_coords).rgb
DiffuseTerm(material, light, LN, tc) ==
    VMul(VMul(VScale(light.intensity, VScale(LN, light.color)), material.kD),
         Texture(material.map_kD, tc))

\* pow(base, shininess * texture(map_nS).r) * light.color * light.intensity * material.kS
SpecularTerm(material, light, base, tc) ==
    VMul(VScale(light.intensity,
                VScale(Pow(base, Mul(material.shininess, Texture(material.map_nS, tc)[1])),
                       light.color)),
         material.kS)

\* 1.0 / (D*D + 1.0)
AttenuationInverseSquare(D) == Div(One, Mul(D, D))
Attenuation(D) == Div(One, Add(Mul(D, D), One))

AmbientBody(material, light, tc) ==
    VMul(VMul(VScale(light.intensity, light.color), material.kA),
         Texture(material.map_kD, tc))

shadeAmbientLight(material, light, tc) ==
    IF light.intensity = Zero THEN Zero3 ELSE AmbientBody(material, light, tc)

\* the locals of shadeDirectionalLight past its intensity test
DirectionalBody(material, light, normal, eye, vertex_position, tc) ==
    LET N == Normalize(normal)
        L == VNeg(Normalize(light.direction))
        V == Normalize(VSub(vertex_position, eye))
        LN == DiffuseFactor(L, N)
        diffuse == DiffuseTerm(material, light, LN, tc)
        R == Reflect(L, N)
        base == SpecularBase(R, V)
        specular == SpecularTerm(material, light, base, tc)
    IN  [N |-> N, L |-> L, V |-> V, LN |-> LN, diffuse |-> diffuse, R |-> R,
         base |-> base, specular |-> specular,
         result |-> VAdd(VAdd(Zero3, diffuse), specular)]

shadeDirectionalLight(material, light, normal, eye, vertex_position, tc) ==
    IF light.intensity = Zero THEN Zero3
    ELSE DirectionalBody(material, light, normal, eye, vertex_position, tc).result

\* the locals of shadePointLight past its intensity test
PointBody(material, light, normal, eye, vertex_position, tc) ==
    LET N == Normalize(normal)
        D == Distance(light.position, vertex_position)
        L == Normalize(VSub(light.position, vertex_position))
        V == Normalize(VSub(vertex_position, eye))
        LN == DiffuseFactor(L, N)
        diffuse == DiffuseTerm(material, light, LN, tc)
        R == Reflect(L, N)
        base == SpecularBase(R, V)
        specular == SpecularTerm(material, light, base, tc)
        attenuation == Attenuation(D)
    IN  [N |-> N, D |-> D, L |-> L, V |-> V, LN |-> LN, diffuse |-> diffuse, R |-> R,
         base |-> base, specular |-> specular, attenuation |-> attenuation,
         result |-> VScale(attenuation, VAdd(VAdd(Zero3, diffuse), specular))]

shadePointLightUnguarded(material, light, normal, eye, vertex_position, tc) ==
    PointBody(material, light, normal, eye, vertex_position, tc).result

shadePointLight(material, light, normal, eye, vertex_position, tc) ==
    IF light.intensity = Zero THEN Zero3
    ELSE PointBody(material, light, normal, eye, vertex_position, tc).result

(***************************************************************************)
(* Inputs of the shader stages                                             *)
(***************************************************************************)
MaxIntensity == 2      \* light intensities are 0..MaxIntensity
MaxShininess == 2      \* material shininess is 0..MaxShininess
MaxDist == 5           \* point lights sit at (0, 0, 0..MaxDist)

TexCoords == {<<0, 0>>, <<1, 0>>}

\* a diffuse map, a specular-exponent map (red channel 1 or 0) and two normal maps
MapDiffuse == [tc \in TexCoords |-> IF tc = <<0, 0>> THEN Vec(1, 1, 1) ELSE <<Q(1, 2), Zero, One>>]
MapExponent == [tc \in TexCoords |-> IF tc = <<0, 0>> THEN Vec(1, 0, 0) ELSE Vec(0, 0, 0)]
MapNormalFlat == [tc \in TexCoords |-> <<Q(1, 2), Q(1, 2), One>>]
MapNormalBumpy == [tc \in TexCoords |-> IF tc = <<0, 0>> THEN <<One, Q(1, 2), Q(1, 2)>>
                                        ELSE <<Q(1, 2), Q(1, 2), Q(1, 2)>>]

Materials ==
    {[kA |-> Vec(1, 1, 1), kD |-> <<Q(1, 2), Q(1, 2), Q(1, 2)>>, kS |-> Vec(1, 1, 1),
      shininess |-> Q(s, 1), map_kD |-> MapDiffuse, map_nS |-> MapExponent,
      map_norm |-> mn] : s \in 0..MaxShininess, mn \in {MapNormalFlat}}

Colors == {Vec(1, 1, 1), <<One, Q(1, 2), Zero>>}
Intensities == {Q(k, 1) : k \in 0..MaxIntensity}
Directions == {Vec(0, 0, -1), Vec(0, 0, 1), Vec(0, -3, -4), Vec(0, 0, 0)}
LightPositions == {Vec(0, 0, k) : k \in 0..MaxDist}
Normals == {Vec(0, 0, 1), Vec(0, 0, -1), Vec(0, 3, 4), Vec(0, 0, 0)}
Eyes == {Vec(0, 0, 10), Vec(0, 0, 0)}
FragPositions == {Vec(0, 0, 0), Vec(0, 0, 1)}

AmbientLights == {[color |-> c, intensity |-> i] : c \in Colors, i \in Intensities}
DirectionalLights ==
    {[direction |-> d, color |-> c, intensity |-> i] :
        d \in Directions, c \in Colors, i \in Intensities}
PointLights ==
    {[position |-> p, color |-> c, intensity |-> i] :
        p \in LightPositions, c \in Colors, i \in Intensities}

\* what a GPU may produce for normalize(vec3(0)) and for an undefined pow
GPUs == {[normalize_zero |-> nz, pow_undefined |-> pu] :
            nz \in {NaN, Zero}, pu \in {NaN, Zero, One}}

(***************************************************************************)
(* One call of a shade function                                            *)
(***************************************************************************)
NotCalled == [called |-> FALSE]

\* the parts of the model a specification does not exercise stay as they are here
IdleShade == sh_in = [kind |-> "none"] /\ sh_out = NotCalled
IdleVertex == vs_in = <<>> /\ vs_out = NotCalled
IdleFragment == fs_in = <<>> /\ fs = <<>>
IdleHost == gl = <<>> /\ textures = <<>> /\ objects = <<>> /\ call = <<>>

\* no shader runs: the host side does not depend on the GPU
IdleGPU == gpu = <<>>
InitGPU == gpu \in GPUs

InitShade ==
    /\ sh_out = NotCalled
    /\ \/ \E m \in Materials, l \in AmbientLights, tc \in TexCoords :
            sh_in = [kind |-> "ambient", material |-> m, light |-> l, tex_coords |-> tc]
       \/ \E m \in Materials, l \in DirectionalLights, n \in Normals, e \in Eyes,
             p \in FragPositions, tc \in TexCoords :
            sh_in = [kind |-> "directional", material |-> m, light |-> l, normal |-> n,
                     eye |-> e, vertex_position |-> p, tex_coords |-> tc]
       \/ \E m \in Materials, l \in PointLights, n \in Normals, e \in Eyes,
             p \in FragPositions, tc \in TexCoords :
            sh_in = [kind |-> "point", material |-> m, light |-> l, normal |-> n,
                     eye |-> e, vertex_position |-> p, tex_coords |-> tc]

CallShadeAmbient ==
    /\ sh_in.kind = "ambient" /\ ~sh_out.called
    /\ sh_out' = [called |-> TRUE,
                 result |-> shadeAmbientLight(sh_in.material, sh_in.light, sh_in.tex_coords)]
    /\ UNCHANGED <<gpu, sh_in, vertex_vars, frag_vars, host_vars>>

CallShadeDirectional ==
    /\ sh_in.kind = "directional" /\ ~sh_out.called
    /\ sh_out' =
         [called |-> TRUE,
          result |-> shadeDirectionalLight(sh_in.material, sh_in.light, sh_in.normal,
                                           sh_in.eye, sh_in.vertex_position, sh_in.tex_coords),
          locals |-> IF sh_in.light.intensity = Zero THEN <<>>
                     ELSE DirectionalBody(sh_in.material, sh_in.light, sh_in.normal,
                                          sh_in.eye, sh_in.vertex_position, sh_in.tex_coords)]
    /\ UNCHANGED <<gpu, sh_in, vertex_vars, frag_vars, host_vars>>

CallShadePoint ==
    /\ sh_in.kind = "point" /\ ~sh_out.called
    /\ sh_out' =
         [called |-> TRUE,
          result |-> shadePointLight(sh_in.material, sh_in.light, sh_in.normal,
                                     sh_in.eye, sh_in.vertex_position, sh_in.tex_coords),
          locals |-> IF sh_in.light.intensity = Zero THEN <<>>
                     ELSE PointBody(sh_in.material, sh_in.light, sh_in.normal,
                                    sh_in.eye, sh_in.vertex_position, sh_in.tex_coords)]
    /\ UNCHANGED <<gpu, sh_in, vertex_vars, frag_vars, host_vars>>

NextShade == CallShadeAmbient \/ CallShadeDirectional \/ CallShadePoint

InitSpecShade == InitGPU /\ InitShade /\ IdleVertex /\ IdleFragment /\ IdleHost
SpecShade ==
    InitSpecShade /\ [][NextShade]_vars

(***************************************************************************)
(* Claims about the shade functions (under SpecShade)                      *)
(***************************************************************************)
\* the incidence, normal, reflection and view vectors of the call in sh_in
ShadeN == Normalize(sh_in.normal)
ShadeL ==
    IF sh_in.kind = "directional" THEN VNeg(Normalize(sh_in.light.direction))
    ELSE Normalize(VSub(sh_in.light.position, sh_in.vertex_position))
ShadeV == Normalize(VSub(sh_in.vertex_position, sh_in.eye))
ShadeR == Reflect(ShadeL, ShadeN)
ShadeLit == sh_out.called /\ sh_in.kind \in {"directional", "point"}
               /\ sh_in.light.intensity # Zero

\* C1: each of shadeAmbientLight, shadeDirectionalLight and shadePointLight returns
\* exactly the zero vector for a light of intensity 0, whatever the light's other
\* fields (a zero direction, a position equal to the fragment's), the material, the
\* normal and the eye.
C1_ZeroIntensityIsZero ==
    (sh_out.called /\ sh_in.light.intensity = Zero) => sh_out.result = Zero3

\* C1 witness: a point light of intensity 0 sitting on the fragment, on a GPU whose
\* normalize(0) is NaN, was shaded.
C1_Witness ==
    /\ sh_out.called /\ sh_in.kind = "point" /\ sh_in.light.intensity = Zero
    /\ sh_in.light.position = sh_in.vertex_position
    /\ sh_in.light.color # Zero3
    /\ gpu.normalize_zero = NaN

\* C4: for a point light of non-zero intensity the result is the sum of the diffuse
\* and the specular term times 1/(D*D+1), D the distance from the light to the
\* fragment; D*D+1 is never 0, the factor is 1 at distance 0 and 1/26 for a light at
\* (0,0,5) and a fragment at the origin.
C4_PointAttenuation ==
    (sh_out.called /\ sh_in.kind = "point" /\ sh_in.light.intensity # Zero) =>
        LET d == VSub(sh_in.light.position, sh_in.vertex_position)
            denominator == Add(Dot(d, d), One)
            factor == Recip(denominator)
        IN  /\ denominator # Zero /\ IsFinite(factor)
            /\ sh_out.locals.attenuation = factor
            /\ sh_out.result =
                 VScale(factor, VAdd(sh_out.locals.diffuse, sh_out.locals.specular))
            /\ sh_out.result =
                 VScale(factor,
                        shadeDirectionalLight(sh_in.material,
                            [direction |-> VNeg(d), color |-> sh_in.light.color,
                             intensity |-> sh_in.light.intensity],
                            sh_in.normal, sh_in.eye, sh_in.vertex_position,
                            sh_in.tex_coords))
            /\ (d = Zero3 => factor = One)
            /\ (sh_in.light.position = Vec(0, 0, 5) /\ sh_in.vertex_position = Zero3
                  => factor = Q(1, 26))

\* C4 witness: the light at (0,0,5) lit a fragment at the origin facing it, and the
\* result is the unattenuated sum divided by 26.
C4_Witness ==
    /\ sh_out.called /\ sh_in.kind = "point" /\ sh_in.light.intensity = One
    /\ sh_in.light.position = Vec(0, 0, 5) /\ sh_in.vertex_position = Zero3
    /\ sh_in.normal = Vec(0, 0, 1) /\ sh_in.eye = Vec(0, 0, 10)
    /\ sh_out.locals.attenuation = Q(1, 26)
    /\ sh_out.locals.diffuse # Zero3
    /\ VScale(Q(26, 1), sh_out.result) = VAdd(sh_out.locals.diffuse, sh_out.locals.specular)

\* C7: for a directional or point light of non-zero intensity, a negative L.N gives
\* a diffuse factor and a diffuse term of exactly 0, so the light's result is what
\* it would be for a material with kD = 0; a negative R.V gives a specular base of
\* exactly 0.
C7_NegativeAlignmentClamped ==
    ShadeLit =>
        /\ Lt(Dot(ShadeL, ShadeN), Zero) =>
              /\ sh_out.locals.LN = Zero
              /\ sh_out.locals.diffuse = Zero3
              /\ sh_out.result =
                   IF sh_in.kind = "directional"
                   THEN shadeDirectionalLight([sh_in.material EXCEPT !.kD = Zero3],
                            sh_in.light, sh_in.normal, sh_in.eye, sh_in.vertex_position,
                            sh_in.tex_coords)
                   ELSE shadePointLight([sh_in.material EXCEPT !.kD = Zero3],
                            sh_in.light, sh_in.normal, sh_in.eye, sh_in.vertex_position,
                            sh_in.tex_coords)
        /\ Lt(Dot(ShadeR, ShadeV), Zero) => sh_out.locals.base = Zero

\* C7 witness: a lit surface facing away from a directional light, seen from the
\* side where R.V is negative too.
C7_Witness ==
    /\ ShadeLit /\ sh_in.kind = "directional"
    /\ Lt(Dot(ShadeL, ShadeN), Zero)
    /\ Lt(Dot(ShadeR, ShadeV), Zero)
    /\ sh_out.locals.diffuse = Zero3

(***************************************************************************)
(* Vertex stage                                                            *)
(***************************************************************************)
\* vec4 and mat4; a matrix is the tuple of its columns, as in GLSL
Vec4(v, w) == <<v[1], v[2], v[3], w>>
Xyz(v) == <<v[1], v[2], v[3]>>
Dot4(a, b) == Add(Add(Add(Mul(a[1], b[1]), Mul(a[2], b[2])), Mul(a[3], b[3])), Mul(a[4], b[4]))
Normalize4(a) ==
    LET len == Sqrt(Dot4(a, a))
        nz == gpu.normalize_zero
    IN  IF len = Zero THEN <<nz, nz, nz, nz>>
        ELSE <<Div(a[1], len), Div(a[2], len), Div(a[3], len), Div(a[4], len)>>
\* row k of matrix M (its columns' k-th components) times the vector v
Row4(M, v, k) ==
    Add(Add(Add(Mul(M[1][k], v[1]), Mul(M[2][k], v[2])), Mul(M[3][k], v[3])),
        Mul(M[4][k], v[4]))
\* matrix * vector
Mat4Vec(M, v) == <<Row4(M, v, 1), Row4(M, v, 2), Row4(M, v, 3), Row4(M, v, 4)>>
Mat4Mul(A, B) == <<Mat4Vec(A, B[1]), Mat4Vec(A, B[2]), Mat4Vec(A, B[3]), Mat4Vec(A, B[4])>>
Row3(M, v, k) == Add(Add(Mul(M[1][k], v[1]), Mul(M[2][k], v[2])), Mul(M[3][k], v[3]))
Mat3Vec(M, v) == <<Row3(M, v, 1), Row3(M, v, 2), Row3(M, v, 3)>>
\* mat3(a, b, c): the matrix with columns a, b, c
Mat3(a, b, c) == <<a, b, c>>
Transpose3(M) ==
    <<<<M[1][1], M[2][1], M[3][1]>>,
      <<M[1][2], M[2][2], M[3][2]>>,
      <<M[1][3], M[2][3], M[3][3]>>>>

\* lines 32-36 of the vertex stage: T, N, the re-orthogonalised T, B and tbn
TBNMatrix(T, B, N) == Transpose3(Mat3(T, B, N))

VertexTBN(u_m, a_tangent, a_normal) ==
    LET T0 == Xyz(Normalize4(Mat4Vec(u_m, Vec4(a_tangent, Zero))))
        N == Xyz(Normalize4(Mat4Vec(u_m, Vec4(a_normal, Zero))))
        T == Normalize(VSub(T0, VScale(Dot(T0, N), N)))
        B == Cross(N, T)
    IN  [T |-> T, N |-> N, B |-> B, tbn |-> TBNMatrix(T, B, N)]

\* main() of the vertex stage
VertexMain(in) ==
    LET vertex_position_world == Mat4Vec(in.u_m, Vec4(in.a_position, One))
        basis == VertexTBN(in.u_m, in.a_tangent, in.a_normal)
    IN  [called |-> TRUE,
         o_vertex_position_world |-> Xyz(vertex_position_world),
         gl_Position |-> Mat4Vec(Mat4Mul(in.u_p, in.u_v), vertex_position_world),
         tex_coords |-> in.a_texture_coord,
         T |-> basis.T, N |-> basis.N, B |-> basis.B,
         tbn |-> basis.tbn]

Col4(x, y, z, w) == <<Q(x, 1), Q(y, 1), Q(z, 1), Q(w, 1)>>
Identity4 == <<Col4(1, 0, 0, 0), Col4(0, 1, 0, 0), Col4(0, 0, 1, 0), Col4(0, 0, 0, 1)>>
\* a quarter turn about z, a uniform scale by 2 and a translation by (1, 2, 3)
RotateZ4 == <<Col4(0, 1, 0, 0), Col4(-1, 0, 0, 0), Col4(0, 0, 1, 0), Col4(0, 0, 0, 1)>>
Scale4 == <<Col4(2, 0, 0, 0), Col4(0, 2, 0, 0), Col4(0, 0, 2, 0), Col4(0, 0, 0, 1)>>
Translate4 == <<Col4(1, 0, 0, 0), Col4(0, 1, 0, 0), Col4(0, 0, 1, 0), Col4(1, 2, 3, 1)>>
\* a projection whose w is -z
Project4 == <<Col4(1, 0, 0, 0), Col4(0, 1, 0, 0), Col4(0, 0, -1, -1), Col4(0, 0, -2, 0)>>

ModelMatrices == {Identity4, RotateZ4, Scale4, Translate4}
Tangents == {Vec(1, 0, 0), Vec(0, 1, 0), Vec(0, 0, 1), Vec(0, 3, 4), Vec(0, 0, 0)}
VertexNormals == {Vec(0, 0, 1), Vec(1, 0, 0), Vec(0, -1, 0), Vec(0, 4, 3), Vec(0, 0, 0)}

InitVertex ==
    /\ vs_out = NotCalled
    /\ \E m \in ModelMatrices, v \in {Identity4, Translate4}, p \in {Identity4, Project4},
          pos \in {Vec(0, 0, 0), Vec(1, 2, 3)}, n \in VertexNormals, t \in Tangents,
          tc \in TexCoords :
         vs_in = [a_position |-> pos, a_normal |-> n, a_tangent |-> t,
                  a_texture_coord |-> tc, u_m |-> m, u_v |-> v, u_p |-> p]

RunVertexMain ==
    /\ ~vs_out.called
    /\ vs_out' = VertexMain(vs_in)
    /\ UNCHANGED <<gpu, vs_in, shade_vars, frag_vars, host_vars>>

NextVertex == RunVertexMain

InitSpecVertex == InitGPU /\ InitVertex /\ IdleShade /\ IdleFragment /\ IdleHost
SpecVertex ==
    InitSpecVertex /\ [][NextVertex]_vars

\* T and N of a vertex-stage run are unit vectors at a right angle
Orthonormal(T, N) == Dot(T, T) = One /\ Dot(N, N) = One /\ Dot(T, N) = Zero

\* C6: the tbn the vertex stage outputs takes a tangent-space vector to world space:
\* for orthonormal T, N and B = N x T, tbn * (0,0,1) = N, tbn * (1,0,0) = T and
\* tbn * (0,1,0) = B.
C6_TbnMapsTangentToWorld ==
    (vs_out.called /\ Orthonormal(vs_out.T, vs_out.N)) =>
        /\ vs_out.B = Cross(vs_out.N, vs_out.T)
        /\ Mat3Vec(vs_out.tbn, Vec(0, 0, 1)) = vs_out.N
        /\ Mat3Vec(vs_out.tbn, Vec(1, 0, 0)) = vs_out.T
        /\ Mat3Vec(vs_out.tbn, Vec(0, 1, 0)) = vs_out.B

(***************************************************************************)
(* Fragment stage: main()                                                  *)
(***************************************************************************)
\* two fragment invocations, each of a draw call with uniforms of its own
Invocations == {1, 2}
LightIndices == 0..(MAX_LIGHTS - 1)

\* lines 124-126: the world normal from the normal map and tbn
FragmentNormal(map_norm, tbn, tc) ==
    LET sample == Texture(map_norm, tc)
        decoded == Normalize(VSub(VScale(Two, sample), Vec(1, 1, 1)))
    IN  Normalize(Mat3Vec(tbn, decoded))

\* line 131: u_show_normals == true
ShowNormalsTestNegated(u_show_normals) == u_show_normals = FALSE
ShowNormalsTest(u_show_normals) == u_show_normals = TRUE

\* line 140: i < MAX_LIGHTS
LoopContinuesShort(i) == i < MAX_LIGHTS - 1
LoopContinues(i) == i < MAX_LIGHTS

\* lines 141-143: the three contributions of index i, added in this order
LightContribution(in, normal, i) ==
    <<shadeAmbientLight(in.u_material, in.u_lights_ambient[i], in.tex_coords),
      shadeDirectionalLight(in.u_material, in.u_lights_directional[i], normal, in.u_eye,
                            in.o_vertex_position_world, in.tex_coords),
      shadePointLight(in.u_material, in.u_lights_point[i], normal, in.u_eye,
                      in.o_vertex_position_world, in.tex_coords)>>

\* slots the caller disabled: intensity 0, the other fields left as they were
OffAmbient == [color |-> Vec(1, 1, 1), intensity |-> Zero]
OffDirectional == [direction |-> Zero3, color |-> Vec(1, 1, 1), intensity |-> Zero]
OffPoint == [position |-> Zero3, color |-> Vec(1, 1, 1), intensity |-> Zero]

FlatMaterial ==
    [kA |-> Vec(1, 1, 1), kD |-> <<Q(1, 2), Q(1, 2), Q(1, 2)>>, kS |-> Vec(1, 1, 1),
     shininess |-> One, map_kD |-> MapDiffuse, map_nS |-> MapExponent,
     map_norm |-> MapNormalFlat]

\* the uniforms of three scenes: no light; a few lights in the first, a middle and
\* the last slot; every slot of every array lit
SceneDark ==
    [u_lights_ambient |-> [i \in LightIndices |-> OffAmbient],
     u_lights_directional |-> [i \in LightIndices |-> OffDirectional],
     u_lights_point |-> [i \in LightIndices |-> OffPoint],
     u_material |-> FlatMaterial, u_eye |-> Vec(0, 0, 10)]
SceneSparse ==
    [u_lights_ambient |->
        [i \in LightIndices |->
            IF i \in {0, MAX_LIGHTS - 1} THEN [color |-> <<One, Q(1, 2), Zero>>, intensity |-> One]
            ELSE OffAmbient],
     u_lights_directional |->
        [i \in LightIndices |->
            IF i = 3 THEN [direction |-> Vec(0, -3, -4), color |-> Vec(1, 1, 1), intensity |-> Two]
            ELSE OffDirectional],
     u_lights_point |->
        [i \in LightIndices |->
            IF i = MAX_LIGHTS - 1 THEN [position |-> Vec(0, 0, 5), color |-> Vec(1, 1, 1), intensity |-> One]
            ELSE OffPoint],
     u_material |-> [FlatMaterial EXCEPT !.map_norm = MapNormalBumpy, !.shininess = Two],
     u_eye |-> Vec(0, 0, 10)]
SceneFull ==
    [u_lights_ambient |->
        [i \in LightIndices |-> [color |-> Vec(1, 1, 1), intensity |-> Q(1 + (i % 2), 1)]],
     u_lights_directional |->
        [i \in LightIndices |->
            [direction |-> IF i % 2 = 0 THEN Vec(0, 0, -1) ELSE Vec(0, 0, 1),
             color |-> <<One, Q(1, 2), Zero>>, intensity |-> One]],
     u_lights_point |->
        [i \in LightIndices |->
            [position |-> Vec(0, 0, i % 4), color |-> Vec(1, 1, 1), intensity |-> Two]],
     u_material |-> FlatMaterial, u_eye |-> Vec(0, 0, -2)]
Scenes == {SceneDark, SceneSparse, SceneFull}

\* the vertices whose outputs reach the fragment stage: the identity basis, a turned
\* basis and a degenerate one (tangent parallel to the normal)
FragmentVertices ==
    {[a_position |-> pos, a_normal |-> b.a_normal, a_tangent |-> b.a_tangent,
      a_texture_coord |-> tc, u_m |-> b.u_m, u_v |-> Identity4, u_p |-> Project4] :
        pos \in FragPositions, tc \in TexCoords,
        b \in {[u_m |-> Identity4, a_tangent |-> Vec(1, 0, 0), a_normal |-> Vec(0, 0, 1)],
               [u_m |-> RotateZ4, a_tangent |-> Vec(0, 1, 0), a_normal |-> Vec(1, 0, 0)],
               [u_m |-> Identity4, a_tangent |-> Vec(0, 0, 1), a_normal |-> Vec(0, 0, 1)]}}

FragmentStart ==
    [pc |-> "start", normal |-> Zero3, i |-> 0, light_contribution |-> Zero3,
     o_fragColor |-> <<>>, visited |-> <<>>, shade_calls |-> 0]

\* a primitive whose vertices all carry the attributes vs_in is drawn twice, each
\* draw with lights, material and eye of its own; one fragment of each draw is shaded
InitFragment ==
    /\ vs_in \in FragmentVertices
    /\ vs_out = NotCalled
    /\ fs = [inv \in Invocations |-> FragmentStart]
    /\ \E show \in BOOLEAN, scene \in [Invocations -> Scenes] :
         fs_in = [inv \in Invocations |->
                    [u_show_normals |-> show,
                     u_lights_ambient |-> scene[inv].u_lights_ambient,
                     u_lights_directional |-> scene[inv].u_lights_directional,
                     u_lights_point |-> scene[inv].u_lights_point,
                     u_material |-> scene[inv].u_material,
                     u_eye |-> scene[inv].u_eye]]

\* the uniforms of an invocation with what it receives from the vertex stage (every
\* vertex of the primitive has the same outputs, so interpolation leaves them as is)
FragmentInput(inv) ==
    [u_material |-> fs_in[inv].u_material,
     u_lights_ambient |-> fs_in[inv].u_lights_ambient,
     u_lights_directional |-> fs_in[inv].u_lights_directional,
     u_lights_point |-> fs_in[inv].u_lights_point,
     u_eye |-> fs_in[inv].u_eye,
     o_vertex_position_world |-> vs_out.o_vertex_position_world,
     tbn |-> vs_out.tbn,
     tex_coords |-> vs_out.tex_coords]

\* an invocation runs when no other one is in the middle of main(): invocations
\* share no mutable state, so a finer interleaving shows nothing more
MayRun(inv) ==
    /\ vs_out.called
    /\ \A other \in Invocations \ {inv} : fs[other].pc \in {"start", "done"}

\* lines 124-126
MainNormal(inv) ==
    /\ MayRun(inv) /\ fs[inv].pc = "start"
    /\ fs' = [fs EXCEPT ![inv].pc = "test",
                        ![inv].normal = FragmentNormal(fs_in[inv].u_material.map_norm,
                                                       vs_out.tbn, vs_out.tex_coords)]
    /\ UNCHANGED <<gpu, fs_in, shade_vars, vertex_vars, host_vars>>

\* lines 131-134: write the normal and return
MainShowNormals(inv) ==
    /\ fs[inv].pc = "test" /\ ShowNormalsTest(fs_in[inv].u_show_normals)
    /\ fs' = [fs EXCEPT ![inv].pc = "done",
                        ![inv].o_fragColor = <<fs[inv].normal, One>>]
    /\ UNCHANGED <<gpu, fs_in, shade_vars, vertex_vars, host_vars>>

\* lines 137 and 140: light_contribution = vec3(0.0), i = 0
MainLoopInit(inv) ==
    /\ fs[inv].pc = "test" /\ ~ShowNormalsTest(fs_in[inv].u_show_normals)
    /\ fs' = [fs EXCEPT ![inv].pc = "loop", ![inv].light_contribution = Zero3, ![inv].i = 0]
    /\ UNCHANGED <<gpu, fs_in, shade_vars, vertex_vars, host_vars>>

\* lines 140-144: one pass of the loop body, then i++
MainLoopBody(inv) ==
    /\ fs[inv].pc = "loop" /\ LoopContinues(fs[inv].i)
    /\ LET c == LightContribution(FragmentInput(inv), fs[inv].normal, fs[inv].i)
       IN  fs' = [fs EXCEPT
                    ![inv].light_contribution =
                        VAdd(VAdd(VAdd(fs[inv].light_contribution, c[1]), c[2]), c[3]),
                    ![inv].visited = Append(fs[inv].visited, fs[inv].i),
                    ![inv].shade_calls = fs[inv].shade_calls + 3,
                    ![inv].i = fs[inv].i + 1]
    /\ UNCHANGED <<gpu, fs_in, shade_vars, vertex_vars, host_vars>>

\* line 146
MainOutput(inv) ==
    /\ fs[inv].pc = "loop" /\ ~LoopContinues(fs[inv].i)
    /\ fs' = [fs EXCEPT ![inv].pc = "done",
                        ![inv].o_fragColor = <<fs[inv].light_contribution, One>>]
    /\ UNCHANGED <<gpu, fs_in, shade_vars, vertex_vars, host_vars>>

NextFragment ==
    \/ RunVertexMain
    \/ \E inv \in Invocations :
        \/ MainNormal(inv)
        \/ MainShowNormals(inv)
        \/ MainLoopInit(inv)
        \/ MainLoopBody(inv)
        \/ MainOutput(inv)

InitSpecFragment == InitGPU /\ InitFragment /\ IdleShade /\ IdleHost
SpecFragment ==
    InitSpecFragment /\ [][NextFragment]_vars

(***************************************************************************)
(* Claims about main() of the fragment stage (under SpecFragment)          *)
(***************************************************************************)
Done(inv) == fs[inv].pc = "done"

NormalSample(inv) == Texture(fs_in[inv].u_material.map_norm, vs_out.tex_coords)

\* C2: with u_show_normals true the fragment stage writes (normal, 1.0) and returns
\* before it shades any light: no shade function was evaluated, and two invocations
\* that agree on the normal-map sample, tbn and the texture coordinate write the same
\* colour whatever their light arrays, material coefficients and eye are.
C2_ShowNormalsBypassesLights ==
    \A a \in Invocations :
        (Done(a) /\ fs_in[a].u_show_normals) =>
            /\ fs[a].shade_calls = 0
            /\ fs[a].visited = <<>>
            /\ fs[a].o_fragColor =
                 <<FragmentNormal(fs_in[a].u_material.map_norm, vs_out.tbn, vs_out.tex_coords),
                   One>>
            /\ \A b \in Invocations :
                 (Done(b) /\ fs_in[b].u_show_normals /\ NormalSample(a) = NormalSample(b))
                    => fs[a].o_fragColor = fs[b].o_fragColor

\* C2 witness: two finished debug invocations with the same normal sample, one of a
\* scene without any light and one of a scene with every slot lit and another eye.
C2_Witness ==
    /\ Done(1) /\ Done(2)
    /\ fs_in[1].u_show_normals /\ fs_in[2].u_show_normals
    /\ NormalSample(1) = NormalSample(2)
    /\ fs_in[1].u_lights_point # fs_in[2].u_lights_point
    /\ fs_in[1].u_lights_ambient # fs_in[2].u_lights_ambient
    /\ fs_in[1].u_eye # fs_in[2].u_eye
    /\ \E i \in LightIndices : fs_in[2].u_lights_directional[i].intensity # Zero
    /\ fs[1].o_fragColor = fs[2].o_fragColor
    /\ fs[1].o_fragColor[2] = One

\* the sum of the contributions of the indices k .. MAX_LIGHTS-1, last index first
RECURSIVE ContributionsFrom(_, _)
ContributionsFrom(inv, k) ==
    IF k >= MAX_LIGHTS THEN Zero3
    ELSE LET c == LightContribution(FragmentInput(inv), fs[inv].normal, k)
         IN  VAdd(VAdd(c[1], VAdd(c[2], c[3])), ContributionsFrom(inv, k + 1))

\* C3: with u_show_normals false the fragment stage starts from black, visits the
\* indices 0 .. MAX_LIGHTS-1 once each in increasing order, adds the ambient, the
\* directional and the point contribution of each index, and ends with rgb the sum
\* of all 48 contributions, unclamped, and alpha 1.
C3_SumOfAllLights ==
    \A a \in Invocations :
        (Done(a) /\ ~fs_in[a].u_show_normals) =>
            /\ fs[a].visited = [k \in 1..MAX_LIGHTS |-> k - 1]
            /\ fs[a].shade_calls = 3 * MAX_LIGHTS
            /\ fs[a].o_fragColor = <<ContributionsFrom(a, 0), One>>

\* C3 witness: an invocation finished the loop over a scene with every slot lit, and
\* its red channel is above 1.
C3_Witness ==
    \E a \in Invocations :
        /\ Done(a) /\ ~fs_in[a].u_show_normals
        /\ \A i \in LightIndices : fs_in[a].u_lights_ambient[i].intensity # Zero
        /\ Len(fs[a].visited) = MAX_LIGHTS
        /\ Lt(One, fs[a].o_fragColor[1][1])

(***************************************************************************)
(* The WebGL2 context, as far as Texture, Object3D and ShadedObject3D use  *)
(* it.  A handle (texture, buffer, vertex array, program) is a positive    *)
(* number and null is 0.  A Shader is known by its uses only: use() makes  *)
(* its program the current one, unuse() makes no program current, and a    *)
(* setUniform call writes the uniform of its program when that program is  *)
(* current (WebGL rejects it otherwise).                                   *)
(***************************************************************************)
Null == 0

num_components_vec3 == 3
num_components_vec2 == 2
\* Float32Array.BYTES_PER_ELEMENT
byte_size == 4

MaxTextures == 3       \* Texture objects constructed in a run
MaxVAOs == 5           \* vertex array objects created in a run

ShaderIds == {1, 2}
TextureUnits == 0..2
Locations == 0..3

\* shader.getAttributeLocation(name): shader 1 is the textured program of this
\* repository, shader 2 a program without a_tangent and a_texture_coord
AttributeLocation(shader, name) ==
    IF shader = 1
    THEN CASE name = "a_position" -> 0 [] name = "a_normal" -> 1
           [] name = "a_tangent" -> 2 [] name = "a_texture_coord" -> 3
    ELSE CASE name = "a_position" -> 0 [] name = "a_normal" -> 1 [] OTHER -> -1

ZeroMat4 == <<Col4(0, 0, 0, 0), Col4(0, 0, 0, 0), Col4(0, 0, 0, 0), Col4(0, 0, 0, 0)>>

\* a program's uniforms after linking
DefaultUniforms ==
    [u_m |-> ZeroMat4, kA |-> Zero3, kD |-> Zero3, kS |-> Zero3, shininess |-> Zero,
     map_kD |-> 0, map_nS |-> 0, map_norm |-> 0]

DefaultAttrib == [enabled |-> FALSE, size |-> 4, stride |-> 0, offset |-> 0, buffer |-> Null]

\* the context after its creation
GLInit ==
    [unpack_flip_y |-> FALSE, active_texture |-> 0, texture_2d |-> <<Null, Null, Null>>,
     current_program |-> Null, vertex_array |-> Null, array_buffer |-> Null,
     element_array_buffer |-> Null, buffers |-> <<>>, vaos |-> <<>>,
     uniforms |-> <<DefaultUniforms, DefaultUniforms>>]

GLCreateVertexArray(g) ==
    [g EXCEPT !.vaos = Append(@, [deleted |-> FALSE, element_array_buffer |-> Null,
                                  attribs |-> <<DefaultAttrib, DefaultAttrib, DefaultAttrib,
                                                DefaultAttrib>>])]
\* binding a deleted vertex array is an INVALID_OPERATION and binds nothing
GLBindVertexArray(g, vao) ==
    IF vao # Null /\ g.vaos[vao].deleted THEN g ELSE [g EXCEPT !.vertex_array = vao]
GLDeleteVertexArray(g, vao) ==
    IF vao = Null THEN g
    ELSE [g EXCEPT !.vaos[vao].deleted = TRUE,
                   !.vertex_array = IF @ = vao THEN Null ELSE @]
GLBindArrayBuffer(g, buffer) == [g EXCEPT !.array_buffer = buffer]
\* the ELEMENT_ARRAY_BUFFER binding belongs to the bound vertex array object
GLBindElementArrayBuffer(g, buffer) ==
    IF g.vertex_array = Null THEN [g EXCEPT !.element_array_buffer = buffer]
    ELSE [g EXCEPT !.vaos[g.vertex_array].element_array_buffer = buffer]
GLElementArrayBuffer(g) ==
    IF g.vertex_array = Null THEN g.element_array_buffer
    ELSE g.vaos[g.vertex_array].element_array_buffer
\* enableVertexAttribArray then vertexAttribPointer, on the bound vertex array object;
\* attribute location loc is slot loc + 1
GLAttribute(g, loc, size, stride, offset) ==
    IF g.vertex_array = Null THEN g
    ELSE [g EXCEPT !.vaos[g.vertex_array].attribs[loc + 1] =
                      [enabled |-> TRUE, size |-> size, stride |-> stride,
                       offset |-> offset, buffer |-> g.array_buffer]]
GLBindTexture(g, texture) == [g EXCEPT !.texture_2d[g.active_texture + 1] = texture]
GLActiveTexture(g, unit) == [g EXCEPT !.active_texture = unit]

ShaderUse(g, shader) == [g EXCEPT !.current_program = shader]
ShaderUnuse(g, shader) == [g EXCEPT !.current_program = Null]
ShaderSetUniform(g, shader, name, value) ==
    IF g.current_program = shader THEN [g EXCEPT !.uniforms[shader][name] = value] ELSE g

(***************************************************************************)
(* Texture                                                                 *)
(***************************************************************************)
Idle == [op |-> "idle", obj |-> 0, pc |-> 0]

\* new Texture(filename, gl, flip_y): createTexture up to image.src = filename
NewTexture(flip_y) ==
    /\ call.op = "idle"
    /\ Len(textures) < MaxTextures
    /\ gl' = [gl EXCEPT !.unpack_flip_y = flip_y]
    /\ textures' = Append(textures, [flip_y |-> flip_y, loaded |-> FALSE,
                                     uploaded_flip_y |-> FALSE, mipmap |-> FALSE])
    /\ UNCHANGED <<gpu, shade_vars, vertex_vars, frag_vars, objects, call>>

\* image.onload of the Texture with handle t
OnLoad(t) ==
    /\ call.op = "idle"
    /\ t \in 1..Len(textures) /\ ~textures[t].loaded
    /\ gl' = GLBindTexture(gl, t)
    /\ textures' = [textures EXCEPT ![t].loaded = TRUE,
                                    ![t].uploaded_flip_y = gl.unpack_flip_y,
                                    ![t].mipmap = TRUE]
    /\ UNCHANGED <<gpu, shade_vars, vertex_vars, frag_vars, objects, call>>

(***************************************************************************)
(* Object3D and ShadedObject3D                                             *)
(***************************************************************************)
\* createVBO / createIBO: a new buffer is bound, filled and unbound
CreateBuffer(g, target, length) ==
    LET g1 == [g EXCEPT !.buffers = Append(@, [target |-> target, length |-> length])]
    IN  IF target = "ARRAY_BUFFER" THEN GLBindArrayBuffer(g1, Null)
        ELSE GLBindElementArrayBuffer(g1, Null)

\* an attribute is set up when the shader has it (and, for the last two, when the
\* material has a texture)
SetUpAttribute(g, loc, wanted, size, stride, offset) ==
    IF loc >= 0 /\ wanted THEN GLAttribute(g, loc, size, stride, offset) ELSE g

\* Object3D.createVAO: positions first, then all the normals
Object3D_createVAO(g, obj, shader) ==
    LET g1 == GLBindArrayBuffer(
                  GLBindVertexArray(GLCreateVertexArray(g), Len(g.vaos) + 1),
                  obj.vertices_buffer)
        g2 == SetUpAttribute(g1, AttributeLocation(shader, "a_position"), TRUE,
                             num_components_vec3, 0, 0)
        g3 == SetUpAttribute(g2, AttributeLocation(shader, "a_normal"), TRUE,
                             num_components_vec3, 0,
                             (obj.vertices_length \div 2) * byte_size)
    IN  GLBindArrayBuffer(GLBindVertexArray(g3, Null), Null)

\* byte_size * num_total_components
ShadedStrideWithoutTexture(has_texture) == byte_size * 6
ShadedStride(has_texture) == byte_size * (6 + (IF has_texture THEN 5 ELSE 0))

\* ShadedObject3D.createVAO: one interleaved vertex after the other
ShadedObject3D_createVAO(g, obj, shader) ==
    LET has_texture == obj.material.hasTexture
        stride == ShadedStride(has_texture)
        offset_position == 0
        offset_normal == offset_position + byte_size * num_components_vec3
        offset_tangent == offset_normal + byte_size * num_components_vec3
        offset_texture_coord == offset_tangent + byte_size * num_components_vec3
        g1 == GLBindArrayBuffer(
                  GLBindVertexArray(GLCreateVertexArray(g), Len(g.vaos) + 1),
                  obj.vertices_buffer)
        g2 == SetUpAttribute(g1, AttributeLocation(shader, "a_position"), TRUE,
                             num_components_vec3, stride, offset_position)
        g3 == SetUpAttribute(g2, AttributeLocation(shader, "a_normal"), TRUE,
                             num_components_vec3, stride, offset_normal)
        g4 == SetUpAttribute(g3, AttributeLocation(shader, "a_tangent"), has_texture,
                             num_components_vec3, stride, offset_tangent)
        g5 == SetUpAttribute(g4, AttributeLocation(shader, "a_texture_coord"), has_texture,
                             num_components_vec2, stride, offset_texture_coord)
    IN  GLBindArrayBuffer(GLBindVertexArray(g5, Null), Null)

\* this.createVAO(gl, shader): the method of the object's class
CreateVAO(g, obj, shader) ==
    IF obj.class = "ShadedObject3D" THEN ShadedObject3D_createVAO(g, obj, shader)
    ELSE Object3D_createVAO(g, obj, shader)

NoMaterial ==
    [hasTexture |-> FALSE, kA |-> Zero3, kD |-> Zero3, kS |-> Zero3, shininess |-> Zero,
     map_kD |-> Null, map_nS |-> Null, map_norm |-> Null]
\* a material with all three maps and one with none
TexturedMaterial ==
    [hasTexture |-> TRUE, kA |-> Vec(1, 1, 1), kD |-> Vec(1, 0, 0), kS |-> Vec(1, 1, 1),
     shininess |-> Two, map_kD |-> 1, map_nS |-> 2, map_norm |-> 1]
PlainMaterial ==
    [hasTexture |-> FALSE, kA |-> Vec(0, 1, 0), kD |-> Vec(0, 1, 0), kS |-> Vec(0, 0, 0),
     shininess |-> One, map_kD |-> Null, map_nS |-> Null, map_norm |-> Null]

hasMapKD(material) == material.map_kD # Null
hasMapNS(material) == material.map_nS # Null
hasMapNorm(material) == material.map_norm # Null

\* the objects of the scene, in the order of their construction
Blueprints ==
    <<[class |-> "Object3D", shader |-> 2, material |-> NoMaterial, vertices_length |-> 18,
       indices_length |-> 3],
      [class |-> "ShadedObject3D", shader |-> 1, material |-> TexturedMaterial,
       vertices_length |-> 33, indices_length |-> 3],
      [class |-> "ShadedObject3D", shader |-> 1, material |-> PlainMaterial,
       vertices_length |-> 18, indices_length |-> 3]>>

MaterialTextures(material) == {material.map_kD, material.map_nS, material.map_norm} \ {Null}

DrawModes == {"TRIANGLES", "POINTS"}
Transformations == {Identity4, Translate4}

\* new Object3D(...) / new ShadedObject3D(...): the constructor of Object3D
NewObject ==
    /\ call.op = "idle"
    /\ Len(objects) < Len(Blueprints)
    /\ LET b == Blueprints[Len(objects) + 1]
           g1 == CreateBuffer(gl, "ARRAY_BUFFER", b.vertices_length)
           g2 == CreateBuffer(g1, "ELEMENT_ARRAY_BUFFER", b.indices_length)
           obj == [class |-> b.class, shader |-> b.shader, material |-> b.material,
                   vertices_length |-> b.vertices_length,
                   vertices_buffer |-> Len(gl.buffers) + 1,
                   indices_length |-> b.indices_length,
                   index_buffer |-> Len(gl.buffers) + 2,
                   draw_mode |-> "TRIANGLES",
                   vertex_array_object |-> Len(gl.vaos) + 1,
                   model_matrix |-> Identity4]
       IN  /\ \A t \in MaterialTextures(b.material) : t <= Len(textures)
           /\ Len(gl.vaos) < MaxVAOs
           /\ gl' = CreateVAO(g2, obj, b.shader)
           /\ objects' = Append(objects, obj)
    /\ UNCHANGED <<gpu, shade_vars, vertex_vars, frag_vars, textures, call>>

\* setShader without the rebuild of the vertex array object
SetShaderKeepingVAO(o, shader) ==
    /\ call.op = "idle"
    /\ o \in 1..Len(objects)
    /\ Len(gl.vaos) < MaxVAOs
    /\ objects' = [objects EXCEPT ![o].shader = shader]
    /\ UNCHANGED <<gpu, shade_vars, vertex_vars, frag_vars, gl, textures, call>>

SetShader(o, shader) ==
    /\ call.op = "idle"
    /\ o \in 1..Len(objects)
    /\ Len(gl.vaos) < MaxVAOs
    /\ LET obj == [objects[o] EXCEPT !.shader = shader]
       IN  /\ gl' = CreateVAO(GLDeleteVertexArray(gl, obj.vertex_array_object), obj, shader)
           /\ objects' = [objects EXCEPT ![o] = [obj EXCEPT !.vertex_array_object =
                                                                Len(gl.vaos) + 1]]
    /\ UNCHANGED <<gpu, shade_vars, vertex_vars, frag_vars, textures, call>>

SetDrawMode(o, draw_mode) ==
    /\ call.op = "idle"
    /\ o \in 1..Len(objects)
    /\ objects' = [objects EXCEPT ![o].draw_mode = draw_mode]
    /\ UNCHANGED <<gpu, shade_vars, vertex_vars, frag_vars, gl, textures, call>>

SetTransformation(o, transformation) ==
    /\ call.op = "idle"
    /\ o \in 1..Len(objects)
    /\ objects' = [objects EXCEPT ![o].model_matrix = transformation]
    /\ UNCHANGED <<gpu, shade_vars, vertex_vars, frag_vars, gl, textures, call>>

(***************************************************************************)
(* render.  A render call runs to completion (no other handler runs in    *)
(* between), one group of WebGL calls per step, so that the context can be *)
(* observed before each of them.                                           *)
(***************************************************************************)
\* Object3D.render, and a reordering of it that sets u_m before use()
BaseStepsModelBeforeUse == <<"bind", "u_m", "use", "draw", "cleanup", "unuse">>
BaseSteps == <<"bind", "use", "u_m", "draw", "cleanup", "unuse">>
\* ShadedObject3D.render up to super.render( gl )
ShadedSteps == <<"use", "material", "maps", "unuse">>

RenderSteps(class) ==
    IF class = "ShadedObject3D" THEN ShadedSteps \o BaseSteps ELSE BaseSteps

Rendering == call.op = "render"
Step == RenderSteps(objects[call.obj].class)[call.pc]
At(label) == Rendering /\ Step = label
Advance ==
    IF call.pc = Len(RenderSteps(objects[call.obj].class)) THEN Idle
    ELSE [call EXCEPT !.pc = @ + 1]

\* object.render( gl ) is called
Render(o) ==
    /\ call.op = "idle"
    /\ o \in 1..Len(objects)
    /\ call' = [op |-> "render", obj |-> o, pc |-> 1]
    /\ UNCHANGED <<gpu, shade_vars, vertex_vars, frag_vars, gl, textures, objects>>

\* this.shader.use( )
RenderUse ==
    /\ At("use")
    /\ gl' = ShaderUse(gl, objects[call.obj].shader)
    /\ call' = Advance
    /\ UNCHANGED <<gpu, shade_vars, vertex_vars, frag_vars, textures, objects>>

\* the four u_material coefficients
RenderMaterial ==
    /\ At("material")
    /\ LET obj == objects[call.obj]
           g1 == ShaderSetUniform(gl, obj.shader, "kA", obj.material.kA)
           g2 == ShaderSetUniform(g1, obj.shader, "kD", obj.material.kD)
           g3 == ShaderSetUniform(g2, obj.shader, "kS", obj.material.kS)
       IN  gl' = ShaderSetUniform(g3, obj.shader, "shininess", obj.material.shininess)
    /\ call' = Advance
    /\ UNCHANGED <<gpu, shade_vars, vertex_vars, frag_vars, textures, objects>>

\* one of the three blocks: activeTexture, bindTexture, setUniform1i
BindMap(g, shader, present, unit, texture, name) ==
    IF present
    THEN ShaderSetUniform(GLBindTexture(GLActiveTexture(g, unit), texture), shader, name, unit)
    ELSE g

RenderMaps ==
    /\ At("maps")
    /\ LET obj == objects[call.obj]
           m == obj.material
           g1 == BindMap(gl, obj.shader, hasMapKD(m), 0, m.map_kD, "map_kD")
           g2 == BindMap(g1, obj.shader, hasMapNS(m), 1, m.map_nS, "map_nS")
       IN  gl' = BindMap(g2, obj.shader, hasMapNorm(m), 2, m.map_norm, "map_norm")
    /\ call' = Advance
    /\ UNCHANGED <<gpu, shade_vars, vertex_vars, frag_vars, textures, objects>>

\* this.shader.unuse( )
RenderUnuse ==
    /\ At("unuse")
    /\ gl' = ShaderUnuse(gl, objects[call.obj].shader)
    /\ call' = Advance
    /\ UNCHANGED <<gpu, shade_vars, vertex_vars, frag_vars, textures, objects>>

\* bindVertexArray( this.vertex_array_object ); bindBuffer( ELEMENT_ARRAY_BUFFER, ... )
RenderBind ==
    /\ At("bind")
    /\ LET obj == objects[call.obj]
       IN  gl' = GLBindElementArrayBuffer(GLBindVertexArray(gl, obj.vertex_array_object),
                                          obj.index_buffer)
    /\ call' = Advance
    /\ UNCHANGED <<gpu, shade_vars, vertex_vars, frag_vars, textures, objects>>

\* this.shader.setUniform4x4f('u_m', this.model_matrix)
RenderModelMatrix ==
    /\ At("u_m")
    /\ LET obj == objects[call.obj]
       IN  gl' = ShaderSetUniform(gl, obj.shader, "u_m", obj.model_matrix)
    /\ call' = Advance
    /\ UNCHANGED <<gpu, shade_vars, vertex_vars, frag_vars, textures, objects>>

\* gl.drawElements: reads the context, changes nothing in it
RenderDraw ==
    /\ At("draw")
    /\ call' = Advance
    /\ UNCHANGED <<gpu, shade_vars, vertex_vars, frag_vars, gl, textures, objects>>

\* Clean Up
RenderCleanup ==
    /\ At("cleanup")
    /\ gl' = GLBindElementArrayBuffer(GLBindArrayBuffer(GLBindVertexArray(gl, Null), Null),
                                      Null)
    /\ call' = Advance
    /\ UNCHANGED <<gpu, shade_vars, vertex_vars, frag_vars, textures, objects>>

InitHost == gl = GLInit /\ textures = <<>> /\ objects = <<>> /\ call = Idle

\* the state before any constructor of the host side ran
InitSpecHost == IdleGPU /\ InitHost /\ IdleShade /\ IdleVertex /\ IdleFragment

NextTexture ==
    \/ \E flip_y \in BOOLEAN : NewTexture(flip_y)
    \/ \E t \in 1..MaxTextures : OnLoad(t)

\* Texture constructions and image loads, in any order
SpecTexture ==
    InitSpecHost /\ [][NextTexture]_vars

NextObject ==
    \/ NewTexture(TRUE)
    \/ NewObject
    \/ \E o \in 1..Len(Blueprints), shader \in ShaderIds : SetShader(o, shader)
    \/ \E o \in 1..Len(Blueprints), draw_mode \in DrawModes : SetDrawMode(o, draw_mode)
    \/ \E o \in 1..Len(Blueprints), m \in Transformations : SetTransformation(o, m)

\* the scene's objects are built and changed, in any order
SpecObject ==
    InitSpecHost /\ [][NextObject]_vars

NextRender ==
    \/ NewTexture(TRUE)
    \/ NewObject
    \/ \E o \in 1..Len(Blueprints), m \in Transformations : SetTransformation(o, m)
    \/ \E o \in 1..Len(Blueprints) : Render(o)
    \/ RenderUse
    \/ RenderMaterial
    \/ RenderMaps
    \/ RenderUnuse
    \/ RenderBind
    \/ RenderModelMatrix
    \/ RenderDraw
    \/ RenderCleanup

\* the scene's objects are built, moved and rendered, in any order
SpecRender ==
    InitSpecHost /\ [][NextRender]_vars

\* the object whose draw mode and transformation the scene changes
Animated == {2}

NextLifecycle ==
    \/ NewTexture(TRUE)
    \/ NewObject
    \/ \E o \in 1..Len(Blueprints), shader \in ShaderIds : SetShader(o, shader)
    \/ \E o \in Animated, draw_mode \in DrawModes : SetDrawMode(o, draw_mode)
    \/ \E o \in Animated, m \in Transformations : SetTransformation(o, m)
    \/ \E o \in 1..Len(Blueprints) : Render(o)
    \/ RenderUse
    \/ RenderMaterial
    \/ RenderMaps
    \/ RenderUnuse
    \/ RenderBind
    \/ RenderModelMatrix
    \/ RenderDraw
    \/ RenderCleanup

\* the scene's objects are built, given other shaders and rendered, in any order
SpecLifecycle ==
    InitSpecHost /\ [][NextLifecycle]_vars

(***************************************************************************)
(* Properties of the host side                                             *)
(***************************************************************************)
ShadedObjects == {o \in 1..Len(objects) : objects[o].class = "ShadedObject3D"}
AttributeNames == <<"a_position", "a_normal", "a_tangent", "a_texture_coord">>
VAOOf(o) == gl.vaos[objects[o].vertex_array_object]
LocationOf(o, k) == AttributeLocation(objects[o].shader, AttributeNames[k])
SlotOf(o, k) == VAOOf(o).attribs[LocationOf(o, k) + 1]
EnabledIn(o, k) == LocationOf(o, k) >= 0 /\ SlotOf(o, k).enabled
EndOf(slot) == slot.offset + 4 * slot.size

\* C8: the vertex array object that ShadedObject3D.createVAO built for an object
\* describes one interleaved vertex: the stride is 24 bytes without a texture and
\* 44 bytes with one; position, normal, tangent and texture coordinate are at the
\* byte offsets 0, 12, 24 and 36 with 3, 3, 3 and 2 components; position and
\* normal are enabled when the shader has them, tangent and texture coordinate
\* only when in addition the material has a texture; every enabled attribute ends
\* within the stride and no two enabled attributes overlap.
C8_InterleavedLayout ==
    \A o \in ShadedObjects :
        LET has_texture == objects[o].material.hasTexture
            stride == IF has_texture THEN 44 ELSE 24
            offsets == <<0, 12, 24, 36>>
            sizes == <<3, 3, 3, 2>>
        IN  /\ \A k \in 1..4 :
                  /\ EnabledIn(o, k) <=>
                         (LocationOf(o, k) >= 0 /\ (k \in {3, 4} => has_texture))
                  /\ EnabledIn(o, k) =>
                         /\ SlotOf(o, k).stride = stride
                         /\ SlotOf(o, k).offset = offsets[k]
                         /\ SlotOf(o, k).size = sizes[k]
                         /\ SlotOf(o, k).buffer = objects[o].vertices_buffer
                         /\ EndOf(SlotOf(o, k)) <= stride
            /\ \A j, k \in 1..4 :
                  (j < k /\ EnabledIn(o, j) /\ EnabledIn(o, k)) =>
                      \/ EndOf(SlotOf(o, j)) <= SlotOf(o, k).offset
                      \/ EndOf(SlotOf(o, k)) <= SlotOf(o, j).offset
            /\ \A loc \in Locations :
                  VAOOf(o).attribs[loc + 1].enabled =>
                      \E k \in 1..4 : LocationOf(o, k) = loc

\* a textured object with all four attributes, next to an untextured one, and an
\* object whose vertex array was rebuilt by setShader
C8_Witness ==
    /\ \E o \in ShadedObjects :
           /\ objects[o].material.hasTexture
           /\ EnabledIn(o, 4) /\ SlotOf(o, 4).stride = 44
    /\ \E o \in ShadedObjects :
           /\ ~objects[o].material.hasTexture
           /\ EnabledIn(o, 2) /\ SlotOf(o, 2).stride = 24
    /\ \E o \in ShadedObjects :
           objects[o].shader = 2 /\ VAOOf(o).attribs[1].enabled

RenderedObject == objects[call.obj]

\* C10: in every render call use() is called when no program is in use and
\* unuse() when the object's shader is in use, so that they alternate; the
\* material uniforms, u_m and drawElements are issued while the object's shader is
\* in use; drawElements finds the object's vertex array and index buffer bound and
\* u_m equal to the object's model matrix; and outside a render call the vertex
\* array, ARRAY_BUFFER and ELEMENT_ARRAY_BUFFER bindings are null and no program
\* is in use.
C10_RenderDiscipline ==
    /\ At("use") => gl.current_program = Null
    /\ At("unuse") => gl.current_program = RenderedObject.shader
    /\ (At("material") \/ At("maps") \/ At("u_m") \/ At("draw")) =>
           gl.current_program = RenderedObject.shader
    /\ At("draw") =>
           /\ gl.vertex_array = RenderedObject.vertex_array_object
           /\ GLElementArrayBuffer(gl) = RenderedObject.index_buffer
           /\ gl.uniforms[RenderedObject.shader].u_m = RenderedObject.model_matrix
    /\ call.op = "idle" =>
           /\ gl.vertex_array = Null
           /\ gl.array_buffer = Null
           /\ GLElementArrayBuffer(gl) = Null
           /\ gl.current_program = Null

\* a moved shaded object is about to be drawn after an object with the other
\* shader was rendered
C10_Witness ==
    /\ At("draw")
    /\ RenderedObject.class = "ShadedObject3D"
    /\ RenderedObject.model_matrix = Translate4
    /\ gl.uniforms[RenderedObject.shader].u_m = Translate4
    /\ gl.uniforms[2].u_m = Identity4

Samplers == {"map_kD", "map_nS", "map_norm"}
\* the texture a sampler of the program in use reads: the one bound to its unit
SampledTexture(g, name) == g.texture_2d[g.uniforms[g.current_program][name] + 1]

\* C5: when a shaded object whose material lacks a map is drawn, the sampler of
\* that map reads no texture (the default of an unbound unit), whatever was
\* rendered before.
C5_MissingMapReadsDefault ==
    (At("draw") /\ RenderedObject.class = "ShadedObject3D") =>
        \A name \in Samplers :
            RenderedObject.material[name] = Null => SampledTexture(gl, name) = Null

\* C9: the image of every loaded Texture was uploaded with UNPACK_FLIP_Y_WEBGL
\* equal to the flip_y its constructor was given.
C9_UploadUsesOwnFlipY ==
    \A t \in 1..Len(textures) :
        textures[t].loaded => textures[t].uploaded_flip_y = textures[t].flip_y

\* the vertex array object the createVAO of the object's own class builds for the
\* object's current shader
ExpectedVAO(o) ==
    LET obj == objects[o]
        g == IF obj.class = "ShadedObject3D"
             THEN ShadedObject3D_createVAO(gl, obj, obj.shader)
             ELSE Object3D_createVAO(gl, obj, obj.shader)
    IN  g.vaos[Len(g.vaos)]
LiveVAOs == {v \in 1..Len(gl.vaos) : ~gl.vaos[v].deleted}

\* C11: at every moment after its construction an object's vertex_array_object is
\* a vertex array that was created and not deleted, with the attribute pointers
\* that the createVAO of the object's class sets up for the object's current
\* shader; the vertex array bound during a render call is that of the rendered
\* object; and the vertex arrays that were not deleted are exactly those of the
\* objects, one each, so that every setShader deleted the one it replaced and no
\* other.
C11_VAOFollowsShader ==
    /\ \A o \in 1..Len(objects) :
           LET v == objects[o].vertex_array_object
           IN  /\ v \in 1..Len(gl.vaos)
               /\ ~gl.vaos[v].deleted
               /\ gl.vaos[v].attribs = ExpectedVAO(o).attribs
    /\ (Rendering /\ gl.vertex_array # Null) =>
           gl.vertex_array = RenderedObject.vertex_array_object
    /\ (At("use") \/ At("u_m") \/ At("draw") \/ At("cleanup")) /\ call.pc > Len(ShadedSteps) =>
           gl.vertex_array = RenderedObject.vertex_array_object
    /\ LiveVAOs = {objects[o].vertex_array_object : o \in 1..Len(objects)}
    /\ Cardinality(LiveVAOs) = Len(objects)

\* the textured object, given the shader without tangents by a setShader that
\* deleted its first vertex array, is drawn as points after a second setShader
C11_Witness ==
    /\ At("draw")
    /\ RenderedObject.material.hasTexture
    /\ RenderedObject.shader = 2
    /\ RenderedObject.draw_mode = "POINTS"
    /\ gl.vertex_array = RenderedObject.vertex_array_object
    /\ Cardinality({v \in 1..Len(gl.vaos) : gl.vaos[v].deleted}) = 2

====
